---- MODULE Spec2Model ----
(***************************************************************************)
(* Car Rush: the game loop of useGameLoop (src/unnamed/part_000) together  *)
(* with the parts of GameScreen (src/frontend/src/lib/canisterClient.ts)   *)
(* that drive it: pause, reset, the isGameOver state and the milestone     *)
(* callback, and with App (src/frontend/src/App.tsx) and useProcessAction  *)
(* (src/unnamed/part_000): the screens, the identity and actor checks and  *)
(* the processAction call, and with BGGConnectionDialog                    *)
(* (src/frontend/src/components/BGGConnectionDialog.tsx), which no screen  *)
(* renders and which is therefore studied in a specification of its own.   *)
(*                                                                         *)
(* Environment.  useInternetIdentity, useActor and the canister are not    *)
(* part of the sources; they appear as the steps AuthInitialized, login,   *)
(* clear, ActorSettles and ProcessActionSettles, which choose among the    *)
(* values the code distinguishes.  Texts that the code inspects are        *)
(* sequences of characters.                                                *)
(*                                                                         *)
(* Numbers.  JavaScript numbers are modelled in fixed point: a length is   *)
(* an integer count of 1/Scale pixel.  The heading is counted in steps of  *)
(* TURN_SPEED (0.08 rad) away from the start heading -PI/2, so the field   *)
(* angle a stands for -PI/2 + 0.08 * a.                                    *)
(*                                                                         *)
(* Math.random.  A session draws its random numbers from one of NumWorlds  *)
(* outcome tables; Roll(w, site, idx) is the draw, in percent, made at     *)
(* call site `site` for path point / segment idx.                          *)
(*                                                                         *)
(* React.  isPaused and isGameOver are the values in the state store;      *)
(* rIsPaused and rIsGameOver are the values of the last render, which are  *)
(* the ones the gameLoop closure and the click handlers read.  A state     *)
(* update made in a click handler is rendered, and the loop effect re-run, *)
(* before the handler's task ends (React 18 renders discrete events and    *)
(* flushes their effects synchronously), so the handler's step delivers    *)
(* it.  An update made in an animation frame is rendered later, in a task  *)
(* of its own: Render is that re-render and the effect re-run after it.    *)
(* A functional score update is applied in the order it was queued, so     *)
(* score is the value the next render shows.                               *)
(***************************************************************************)
EXTENDS Integers, Sequences, FiniteSets, TLC

\* ------------------------------------------------------------------ bounds
Scale == 10
NumWorlds == 2
MaxTicks == 5
MaxDriveTicks == 80
MaxLongTicks == 300
MaxStartTicks == 2
MaxKeyChanges == 2
MaxDriveKeyChanges == 4
MaxResets == 1
MaxMilestoneKeyChanges == 1
MaxOverTicks == 45
MaxReturnTicks == 155
ReturnKeyPeriod == 19
MaxReturnKeyChanges == 5
MaxConnects == 2
MaxLossTicks == 129
LossKeyPeriod == 15
MaxLossKeyChanges == 4
SampleCount == 120
DistTolerance == 5
KeyPeriod == 20

\* ------------------------------------------------------- program constants
CANVAS_WIDTH == 800
CANVAS_HEIGHT == 600
CAR_WIDTH == 64
CAR_HEIGHT == 32
COIN_SIZE == 24
ROAD_WIDTH == 400
TURN_SPEED == 1
MOVE_SPEED == 6
SEGMENT_WIDTH == 60
ROAD_EXTEND_THRESHOLD == 200
MAX_SCORE == 20000
ACTION_SCORE_THRESHOLD == 300
COIN_VALUE == 10
INITIAL_SEGMENTS == 15
EXTEND_SEGMENTS == 5
DRIFT_EVERY == 3
ROAD_MARGIN == 20
COIN_JITTER == 40
START_Y_OFFSET == 100
VISIBLE_MARGIN == 50

Keys == {"ArrowLeft", "ArrowRight", " "}
OtherKey == "Enter"

\* ----------------------------------------------------------------- numbers
Px(n) == n * Scale

Max(a, b) == IF a > b THEN a ELSE b
Min(a, b) == IF a < b THEN a ELSE b
Abs(a) == IF a < 0 THEN -a ELSE a

\* n / d rounded to the nearest integer (d > 0)
RoundDiv(n, d) == (2 * n + d) \div (2 * d)

\* 1000 * sin(0.08 * k) and 1000 * cos(0.08 * k), k = 0 .. 400
SinTable ==
  << 0, 80, 159, 238, 315, 389, 462, 531, 597, 659, 717, 771, 819, 862,
     900, 932, 958, 978, 991, 999, 1000, 994, 982, 964, 940, 909, 873, 831,
     784, 732, 675, 614, 549, 481, 409, 335, 259, 181, 101, 22, -58, -138,
     -217, -294, -369, -443, -513, -580, -643, -702, -757, -807, -851,
     -890, -924, -952, -973, -988, -997, -1000, -996, -986, -970, -947,
     -918, -883, -843, -798, -747, -691, -631, -567, -500, -429, -355,
     -279, -202, -123, -43, 37, 117, 196, 273, 349, 423, 494, 562, 626,
     687, 743, 794, 840, 880, 916, 945, 968, 985, 996, 1000, 998, 989, 975,
     954, 926, 893, 855, 810, 761, 707, 648, 585, 518, 448, 375, 300, 223,
     144, 65, -15, -95, -174, -252, -329, -403, -475, -544, -609, -671,
     -728, -780, -828, -870, -907, -937, -962, -981, -993, -999, -999,
     -992, -979, -960, -934, -903, -866, -823, -775, -722, -664, -602,
     -537, -467, -395, -321, -244, -166, -86, -6, 74, 153, 232, 309, 384,
     456, 526, 592, 655, 713, 767, 816, 859, 897, 930, 956, 977, 991, 998,
     1000, 995, 983, 966, 942, 912, 876, 835, 788, 737, 680, 619, 555, 486,
     415, 341, 265, 187, 108, 28, -52, -132, -210, -288, -364, -437, -507,
     -575, -638, -698, -753, -803, -848, -888, -922, -950, -972, -987,
     -997, -1000, -997, -987, -971, -949, -921, -886, -847, -801, -751,
     -696, -636, -573, -505, -435, -361, -286, -208, -129, -50, 30, 110,
     189, 267, 343, 417, 489, 557, 621, 682, 738, 790, 836, 877, 913, 943,
     966, 984, 995, 1000, 998, 990, 976, 955, 929, 896, 858, 814, 765, 711,
     653, 590, 524, 454, 381, 306, 229, 151, 71, -9, -89, -168, -246, -323,
     -398, -470, -539, -604, -666, -723, -776, -824, -867, -904, -935,
     -961, -980, -993, -999, -999, -993, -980, -962, -937, -906, -869,
     -826, -779, -726, -669, -607, -542, -473, -401, -327, -250, -172, -93,
     -13, 67, 147, 225, 302, 378, 450, 520, 587, 650, 708, 763, 812, 856,
     894, 927, 954, 975, 990, 998, 1000, 995, 984, 967, 944, 915, 879, 838,
     792, 741, 685, 624, 560, 492, 421, 347, 271, 193, 114, 34, -46, -125,
     -204, -282, -358, -431, -502, -569, -633, -693, -748, -799, -845,
     -885, -919, -948, -970, -986, -996, -1000, -997, -988, -973, -951,
     -923, -889, -850, -805, -755, -700, -641, -578, -511, -440, -367,
     -292, -214, -136, -56, 24, 104, 183, 261, 337, 411, 483, 551 >>
CosTable ==
  << 1000, 997, 987, 971, 949, 921, 887, 847, 802, 752, 697, 637, 574, 506,
     436, 362, 287, 209, 130, 51, -29, -109, -188, -266, -342, -416, -487,
     -556, -620, -681, -737, -789, -836, -877, -912, -942, -966, -984,
     -995, -1000, -998, -990, -976, -956, -929, -897, -859, -815, -766,
     -712, -654, -591, -525, -455, -382, -307, -230, -152, -72, 8, 87, 167,
     245, 322, 396, 469, 538, 603, 665, 723, 776, 824, 866, 903, 935, 960,
     979, 992, 999, 999, 993, 981, 962, 937, 906, 869, 827, 780, 727, 670,
     608, 543, 474, 402, 328, 251, 173, 94, 14, -66, -146, -224, -301,
     -377, -449, -519, -586, -649, -708, -762, -811, -855, -894, -927,
     -954, -975, -990, -998, -1000, -995, -985, -968, -944, -915, -880,
     -839, -793, -742, -686, -625, -561, -493, -422, -348, -272, -194,
     -115, -36, 44, 124, 203, 281, 356, 430, 501, 568, 632, 692, 748, 798,
     844, 884, 919, 947, 970, 986, 996, 1000, 997, 988, 973, 951, 924, 890,
     851, 806, 756, 701, 642, 579, 512, 441, 368, 293, 215, 137, 57, -23,
     -103, -182, -260, -336, -410, -482, -550, -615, -676, -733, -785,
     -832, -874, -910, -940, -964, -982, -994, -1000, -999, -991, -978,
     -958, -932, -900, -862, -818, -770, -716, -658, -596, -530, -461,
     -388, -313, -236, -158, -79, 1, 81, 161, 239, 316, 391, 463, 532, 598,
     660, 718, 772, 820, 863, 901, 932, 958, 978, 992, 999, 1000, 994, 982,
     964, 939, 909, 873, 831, 784, 731, 675, 613, 548, 480, 408, 334, 257,
     179, 100, 20, -60, -139, -218, -295, -371, -444, -514, -581, -644,
     -703, -758, -807, -852, -891, -924, -952, -973, -989, -997, -1000,
     -996, -986, -969, -946, -918, -883, -843, -797, -746, -690, -630,
     -566, -499, -428, -354, -278, -201, -122, -42, 38, 118, 197, 274, 350,
     424, 495, 563, 627, 688, 743, 794, 840, 881, 916, 945, 968, 985, 996,
     1000, 998, 989, 974, 953, 926, 893, 854, 810, 760, 706, 647, 584, 517,
     447, 374, 299, 222, 143, 63, -16, -96, -176, -254, -330, -405, -476,
     -545, -610, -672, -729, -781, -829, -871, -907, -938, -963, -981,
     -993, -999, -999, -992, -979, -959, -934, -902, -865, -822, -774,
     -721, -663, -601, -536, -466, -394, -319, -243, -164, -85, -5, 75,
     154, 233, 310, 385, 457, 527, 593, 656, 714, 767, 816, 860, 898, 930,
     957, 977, 991, 998, 1000, 995, 983, 965, 941, 911, 876, 834 >>

\* Math.cos(car.angle) and Math.sin(car.angle), times 1000, for the heading
\* -PI/2 + 0.08 * a:  cos(-PI/2 + t) = sin t,  sin(-PI/2 + t) = -cos t.
CosMilli(a) == IF a >= 0 THEN SinTable[a + 1] ELSE -SinTable[(-a) + 1]
SinMilli(a) == -CosTable[Abs(a) + 1]

\* --------------------------------------------------------------- Math.random
\* Call sites of Math.random
SiteDrift == "drift"
SiteSpawn == "spawn"
SiteJitter == "jitter"

SiteNo(site) == IF site = SiteDrift THEN 0 ELSE IF site = SiteSpawn THEN 1 ELSE 2

\* The worlds StartBase + b, b in 0 .. 2^5 - 1, draw the five directions of
\* initializeRoad from the bits of b: between them they generate every
\* initial road.
StartBase == 100
DriftDraws == (INITIAL_SEGMENTS + DRIFT_EVERY - 1) \div DRIFT_EVERY
StartWorlds == StartBase .. (StartBase + 2 ^ DriftDraws - 1)

Bit(b, n) == (b \div (2 ^ n)) % 2

\* The world whose road turns left twice and then right at every draw, with
\* a coin at the right-hand end of the jitter on every segment
LossWorld == 50

\* 100 * Math.random() for the draw made at `site` for index idx in world w.
\* World 0 zig-zags around the start column and spawns a coin on every
\* segment; world 1 always draws high; world 2 always draws low; the others
\* are mixed.
Roll(w, site, idx) ==
  CASE w = 0 -> IF site = SiteDrift THEN (IF idx % 2 = 1 THEN 75 ELSE 25)
                ELSE IF site = SiteSpawn THEN 90
                ELSE 15 + 5 * (idx % 3)
    [] w = 1 -> IF site = SiteSpawn THEN (IF idx % 2 = 0 THEN 99 ELSE 40) ELSE 99
    [] w = 2 -> 0
    [] w = LossWorld -> IF site = SiteDrift
                        THEN (IF idx <= DRIFT_EVERY + 1 THEN 25 ELSE 75)
                        ELSE IF site = SiteSpawn THEN 90 ELSE 99
    [] w >= StartBase /\ site = SiteDrift /\ idx <= INITIAL_SEGMENTS ->
         IF Bit(w - StartBase, (idx - 1) \div DRIFT_EVERY) = 1 THEN 75 ELSE 25
    [] OTHER -> (37 * idx + 29 * SiteNo(site) + 17 * w) % 100

\* Math.random() > 0.5 ? 1 : -1
RandomDirection(w, idx) == IF Roll(w, SiteDrift, idx) > 50 THEN 1 ELSE -1
\* Math.random() > 0.4
RandomSpawn(w, idx) == Roll(w, SiteSpawn, idx) > 40
\* (Math.random() - 0.5) * 40
RandomOffsetX(w, idx) ==
  RoundDiv((Roll(w, SiteJitter, idx) - 50) * COIN_JITTER * Scale, 100)

\* ------------------------------------------------------------ road and coins
\* currentX left as drawn, without the clamp
UnclampedRoadX(x) == x

\* Math.max(ROAD_WIDTH / 2, Math.min(CANVAS_WIDTH - ROAD_WIDTH / 2, currentX))
ClampRoadX(x) ==
  Max(Px(ROAD_WIDTH) \div 2, Min(Px(CANVAS_WIDTH) - Px(ROAD_WIDTH) \div 2, x))

\* SEGMENT_WIDTH * 0.8
DriftStep == (Px(SEGMENT_WIDTH) * 8) \div 10

\* a following point at the height of `last`
NextPointLevel(last, dir) ==
  [x |-> ClampRoadX(last.x + dir * DriftStep), y |-> last.y]

\* The point that follows `last`, drifting by dir
NextPoint(last, dir) ==
  [x |-> ClampRoadX(last.x + dir * DriftStep), y |-> last.y - Px(SEGMENT_WIDTH)]

\* initializeRoad: the loop body for i, .., 14 appended to path
RECURSIVE InitRoadFrom(_, _, _)
InitRoadFrom(path, i, w) ==
  IF i >= INITIAL_SEGMENTS THEN path
  ELSE LET dir == IF i % DRIFT_EVERY = 0 THEN RandomDirection(w, i + 1) ELSE 0
       IN InitRoadFrom(Append(path, NextPoint(path[Len(path)], dir)), i + 1, w)

\* an initializeRoad whose loop never runs: the start point alone
StartPointOnly(w) ==
  << [x |-> Px(CANVAS_WIDTH) \div 2, y |-> Px(CANVAS_HEIGHT)] >>

initializeRoad(w) ==
  InitRoadFrom(<< [x |-> Px(CANVAS_WIDTH) \div 2, y |-> Px(CANVAS_HEIGHT)] >>, 0, w)

\* initializeCoins: the loop body for i, .., path.length - 2
RECURSIVE InitCoinsFrom(_, _, _, _)
InitCoinsFrom(path, cs, i, w) ==
  IF i >= Len(path) - 1 THEN cs
  ELSE IF RandomSpawn(w, i)
       THEN LET point == path[i + 1]
                nextPoint == path[i + 2]
            IN InitCoinsFrom(path,
                 Append(cs, [x |-> (point.x + nextPoint.x) \div 2 + RandomOffsetX(w, i),
                             y |-> (point.y + nextPoint.y) \div 2,
                             collected |-> FALSE]),
                 i + 1, w)
       ELSE InitCoinsFrom(path, cs, i + 1, w)

initializeCoins(path, w) == InitCoinsFrom(path, << >>, 1, w)

\* extendRoad: the loop body for i, .., 4; currentSegmentCount is the path
\* length on entry.  The result is the pair of the new path and coin list.
RECURSIVE ExtendFrom(_, _, _, _, _)
ExtendFrom(path, cs, i, currentSegmentCount, w) ==
  IF i >= EXTEND_SEGMENTS THEN [roadPath |-> path, coins |-> cs]
  ELSE LET idx == currentSegmentCount + i
           dir == IF idx % DRIFT_EVERY = 0 THEN RandomDirection(w, idx) ELSE 0
           p == NextPoint(path[Len(path)], dir)
           cs2 == IF RandomSpawn(w, idx)
                  THEN Append(cs, [x |-> p.x + RandomOffsetX(w, idx), y |-> p.y,
                                   collected |-> FALSE])
                  ELSE cs
       IN ExtendFrom(Append(path, p), cs2, i + 1, currentSegmentCount, w)

\* an extendRoad whose loop never runs
ExtendByNone(path, cs, w) == [roadPath |-> path, coins |-> cs]

extendRoad(path, cs, w) == ExtendFrom(path, cs, 0, Len(path), w)

\* ------------------------------------------------------------------ state
VARIABLES
  car,                 \* gameStateRef.current.car
  coins,               \* gameStateRef.current.coins
  roadPath,            \* gameStateRef.current.roadPath
  keysPressed,         \* gameStateRef.current.keysPressed
  cameraOffsetY,       \* gameStateRef.current.cameraOffsetY
  score,               \* useState score of useGameLoop
  speed,               \* useState speed of useGameLoop
  actionTriggeredRef,  \* the latch of useGameLoop
  timeouts,            \* pending setTimeout(..., 0) callbacks
  isPaused,            \* useState isPaused of GameScreen (state store)
  isGameOver,          \* useState isGameOver of GameScreen (state store)
  rIsPaused,           \* isPaused as of the last render
  rIsGameOver,         \* isGameOver as of the last render
  screenActionTriggeredRef,  \* the latch of GameScreen
  showProcessActionTile,     \* useState showProcessActionTile of GameScreen
  mounted,             \* the mount effects have run
  frames,              \* pending requestAnimationFrame callbacks
  world,               \* the outcome table Math.random draws from
  ticks,               \* ticks of this session that turned or moved the car
  keyChanges,          \* key events of this session that changed keysPressed
  resets,              \* resets so far
  callbackCalls,       \* invocations of onScoreThresholdReached so far
  last,                \* what the last step did
  isInitializing,      \* useInternetIdentity().isInitializing
  identity,            \* useInternetIdentity().identity: "none", "user", "anonymous"
  bggConnected,        \* connectBGGAccount has been called with an id
  actorQuery,          \* useActor(): "loading", "ready" or "failed"
  timerClosures,       \* what each pending timer's callback closed over
  mutation,            \* status of the useProcessAction mutation
  calls,               \* the actor.processAction invocations so far
  processActionError,  \* useState processActionError of GameScreen
  dialog               \* BGGConnectionDialog: its props, state and mutation

gameVars == << car, coins, roadPath, cameraOffsetY, score >>
vars == << car, coins, roadPath, keysPressed, cameraOffsetY, score, speed,
           actionTriggeredRef, timeouts, isPaused, isGameOver, rIsPaused,
           rIsGameOver, screenActionTriggeredRef, showProcessActionTile,
           mounted, frames, world, ticks, keyChanges, resets,
           callbackCalls, last, isInitializing, identity, bggConnected,
           actorQuery, timerClosures, mutation, calls, processActionError,
           dialog >>
appVars == << isInitializing, identity, bggConnected >>
backendVars == << actorQuery, mutation, calls, processActionError >>

Worlds == 0 .. (NumWorlds - 1)

\* the car of gameStateRef's initial value and of resetGame
StartCar ==
  [x |-> Px(CANVAS_WIDTH) \div 2, y |-> Px(CANVAS_HEIGHT) - Px(START_Y_OFFSET),
   angle |-> 0, speed |-> 0]

\* What a step did: the handler that ran and, for a tick, whether it passed
\* the pause / game-over guard (sim), whether thrust was on (moving), whether
\* it called extendRoad (extended), whether the off-road and the horizontal
\* check called setIsGameOver(true), how many coins it picked up (gain), and
\* the kind of toast the step showed (toast.success, toast.error), if any.
Step(op) ==
  [op |-> op, sim |-> FALSE, moving |-> FALSE, extended |-> FALSE,
   offRoad |-> FALSE, offScreen |-> FALSE, gain |-> 0, toast |-> "none"]
Toast(op, kind) == [Step(op) EXCEPT !.toast = kind]

\* ------------------------------------------- identity, actor and messages
\* The values useInternetIdentity can hold as identity: none, an
\* authenticated principal, or the anonymous principal 2vxsx-fae
Identities == {"user", "anonymous"}

\* an App that does not wait for the initialization
ScreenWithoutLoading == IF identity # "none" THEN "game" ELSE "login"

\* App: what it renders
Screen ==
  IF isInitializing THEN "loading"
  ELSE IF identity # "none" THEN "game" ELSE "login"

\* App renders GameScreen, LoginScreen and Toaster only; no component
\* renders BGGConnectionDialog
BGGConnectionDialogOpen == FALSE

\* useActor(): actor is set once the query has succeeded, isFetching while
\* it runs
ActorOf(q) == q = "ready"
IsFetching(q) == q = "loading"

\* What the callback of a tick closes over: the identity and the actor of
\* the render whose effect started the loop
Closure == [identity |-> identity, actorQuery |-> actorQuery]

\* A message is one of the literals of the code (fixed) or a text that came
\* with an error (chars, one character per element)
Fixed(s) == [fixed |-> s, chars |-> << >>]
Chars(cs) == [fixed |-> "", chars |-> cs]
NoError == Fixed("null")

\* String.prototype.toLowerCase
LowerCase ==
  [c \in {"A", "B", "C", "D", "E", "F", "G", "H", "I", "J", "K", "L", "M",
          "N", "O", "P", "Q", "R", "S", "T", "U", "V", "W", "X", "Y", "Z"} |->
     CASE c = "A" -> "a" [] c = "B" -> "b" [] c = "C" -> "c" [] c = "D" -> "d"
       [] c = "E" -> "e" [] c = "F" -> "f" [] c = "G" -> "g" [] c = "H" -> "h"
       [] c = "I" -> "i" [] c = "J" -> "j" [] c = "K" -> "k" [] c = "L" -> "l"
       [] c = "M" -> "m" [] c = "N" -> "n" [] c = "O" -> "o" [] c = "P" -> "p"
       [] c = "Q" -> "q" [] c = "R" -> "r" [] c = "S" -> "s" [] c = "T" -> "t"
       [] c = "U" -> "u" [] c = "V" -> "v" [] c = "W" -> "w" [] c = "X" -> "x"
       [] c = "Y" -> "y" [] c = "Z" -> "z"]
toLowerCase(cs) ==
  [i \in 1 .. Len(cs) |-> IF cs[i] \in DOMAIN LowerCase THEN LowerCase[cs[i]]
                          ELSE cs[i]]

\* String.prototype.includes
includes(cs, word) ==
  \E i \in 1 .. (Len(cs) - Len(word) + 1) :
    SubSeq(cs, i, i + Len(word) - 1) = word

\* The values actor.processAction is rejected with: an Error, a string, or
\* an object with one of the keys message, error, reject_message or none
Rejections ==
  { [type |-> "Error", key |-> "message",
     text |-> << "T", "r", "a", "p" >>],
    [type |-> "Error", key |-> "message",
     text |-> << "N", "o", " ", "q", "u", "o", "r", "u", "m" >>],
    [type |-> "string", key |-> "none",
     text |-> << "D", "e", "n", "i", "e", "d" >>],
    [type |-> "object", key |-> "reject_message",
     text |-> << "T", "r", "a", "c", "k", "i", "n", "g", " ", "o", "f", "f" >>],
    [type |-> "object", key |-> "none", text |-> << >>] }

\* useProcessAction, catch block: the message extracted from the error
ErrorMessage(error) ==
  IF error.type \in {"Error", "string"} THEN Chars(error.text)
  ELSE IF error.key \in {"message", "error", "reject_message"}
       THEN Chars(error.text)
       ELSE Fixed("Unknown error occurred")

\* useProcessAction, catch block: isUnrelatedError (the default message
\* contains none of the four words)
isUnrelatedError(message) ==
  LET lower == toLowerCase(message.chars)
  IN \/ includes(lower, << "d", "a", "t", "a", "d", "o", "g" >>)
     \/ includes(lower, << "r", "u", "m" >>)
     \/ includes(lower, << "a", "n", "a", "l", "y", "t", "i", "c", "s" >>)
     \/ includes(lower, << "t", "r", "a", "c", "k", "i", "n", "g" >>)

\* a handler without the identity checks
NoIdentityError(c) == NoError

\* handleScoreThresholdReached, steps 1 and 2: the message of the identity
\* check that fails for the closure c, NoError when both pass
IdentityError(c) ==
  IF c.identity = "none"
  THEN Fixed("User identity not found. Please log in again.")
  ELSE IF c.identity = "anonymous"
       THEN Fixed("Anonymous users cannot process actions. Please log in with Internet Identity.")
       ELSE NoError

\* handleScoreThresholdReached, step 3: the message of the actor check that
\* fails for the closure c, NoError when both pass
ActorError(c) ==
  IF ~ActorOf(c.actorQuery)
  THEN Fixed("Backend actor not initialized. Please wait and try again.")
  ELSE IF IsFetching(c.actorQuery)
       THEN Fixed("Backend actor is still initializing. Please wait.")
       ELSE NoError

\* useProcessAction, mutationFn before the call: the Error it throws for the
\* actor of the current render, NoError when it goes on to the call
MutationGuardError(q) ==
  IF ~ActorOf(q) THEN Fixed("Actor not initialized - cannot process action")
  ELSE IF IsFetching(q)
       THEN Fixed("Actor is still initializing - please wait")
       ELSE NoError

\* the argument handleScoreThresholdReached passes to mutate
ActionArg == [actionId |-> "car_rush_won", fields |-> << >>]

\* ------------------------------------------------------------- collisions
\* checkCollision(car, {x: coin.x, y: coinScreenY})
PickupRadius == (Max(Px(CAR_WIDTH), Px(CAR_HEIGHT)) + Px(COIN_SIZE)) \div 2

checkCollision(c, coin) ==
  LET dx == c.x - coin.x
      dy == c.y - coin.y
  IN dx * dx + dy * dy < PickupRadius * PickupRadius

\* a segment distance that projects onto the infinite line without
\* clamping param to [0, 1]
SegmentDistSqUnclamped(c, p1, p2) ==
  LET A == c.x - p1.x
      B == c.y - p1.y
      C == p2.x - p1.x
      D == p2.y - p1.y
      dot == A * C + B * D
      lenSq == C * C + D * D
      xx == IF lenSq = 0 THEN p1.x ELSE p1.x + RoundDiv(dot * C, lenSq)
      yy == IF lenSq = 0 THEN p1.y ELSE p1.y + RoundDiv(dot * D, lenSq)
      dx == c.x - xx
      dy == c.y - yy
  IN dx * dx + dy * dy

\* isCarOnRoad, one segment: the square of `distance`
SegmentDistSq(c, p1, p2) ==
  LET A == c.x - p1.x
      B == c.y - p1.y
      C == p2.x - p1.x
      D == p2.y - p1.y
      dot == A * C + B * D
      lenSq == C * C + D * D
      \* param = dot / lenSq, or -1 when lenSq = 0
      before == lenSq = 0 \/ dot < 0
      after == lenSq # 0 /\ dot > lenSq
      xx == IF before THEN p1.x ELSE IF after THEN p2.x
            ELSE p1.x + RoundDiv(dot * C, lenSq)
      yy == IF before THEN p1.y ELSE IF after THEN p2.y
            ELSE p1.y + RoundDiv(dot * D, lenSq)
      dx == c.x - xx
      dy == c.y - yy
  IN dx * dx + dy * dy

\* isCarOnRoad: the square of minDistance over segments i, .., or -1 for
\* Infinity
RECURSIVE MinDistSqFrom(_, _, _, _)
MinDistSqFrom(c, path, i, acc) ==
  IF i >= Len(path) THEN acc
  ELSE LET d == SegmentDistSq(c, path[i], path[i + 1])
       IN MinDistSqFrom(c, path, i + 1, IF acc < 0 THEN d ELSE Min(acc, d))

MinDistSq(c, path) == MinDistSqFrom(c, path, 1, -1)

RoadLimit == Px(ROAD_WIDTH) \div 2 - Px(ROAD_MARGIN)

\* an off-path test that finds every position on the road
isCarOnRoadAnywhere(c, path) == TRUE

\* minDistance < ROAD_WIDTH / 2 - 20
isCarOnRoad(c, path) ==
  LET m == MinDistSq(c, path)
  IN m >= 0 /\ m < RoadLimit * RoadLimit

\* ------------------------------------------------------------------- tick
\* gameLoop, "Handle car turning"
Turn(c, keys) ==
  LET a1 == IF "ArrowLeft" \in keys THEN c.angle - TURN_SPEED ELSE c.angle
      a2 == IF "ArrowRight" \in keys THEN a1 + TURN_SPEED ELSE a1
  IN [c EXCEPT !.angle = a2]

\* a movement step that takes angle 0 for the heading of the start car
MoveAlongX(c) ==
  [c EXCEPT !.x = c.x - RoundDiv(SinMilli(c.angle) * MOVE_SPEED * Scale, 1000),
            !.y = c.y + RoundDiv(CosMilli(c.angle) * MOVE_SPEED * Scale, 1000),
            !.speed = MOVE_SPEED]

\* a movement step of twice the forward vector
MoveTwice(c) ==
  [c EXCEPT !.x = c.x + 2 * RoundDiv(CosMilli(c.angle) * MOVE_SPEED * Scale, 1000),
            !.y = c.y + 2 * RoundDiv(SinMilli(c.angle) * MOVE_SPEED * Scale, 1000),
            !.speed = MOVE_SPEED]

\* a movement step that leaves car.speed as it was
MoveKeepingSpeed(c) ==
  [c EXCEPT !.x = c.x + RoundDiv(CosMilli(c.angle) * MOVE_SPEED * Scale, 1000),
            !.y = c.y + RoundDiv(SinMilli(c.angle) * MOVE_SPEED * Scale, 1000)]

\* gameLoop, "Handle car movement": newX, newY and car.speed
Move(c) ==
  [c EXCEPT !.x = c.x + RoundDiv(CosMilli(c.angle) * MOVE_SPEED * Scale, 1000),
            !.y = c.y + RoundDiv(SinMilli(c.angle) * MOVE_SPEED * Scale, 1000),
            !.speed = MOVE_SPEED]

\* state.roadPath[state.roadPath.length - 1].y + state.cameraOffsetY
TopOfRoad(path, cam) == path[Len(path)].y + cam

\* topOfRoad > -ROAD_EXTEND_THRESHOLD
NeedsExtend(path, cam) == TopOfRoad(path, cam) > -Px(ROAD_EXTEND_THRESHOLD)

\* a camera that keeps the car on the midline in both directions
CameraAdjustmentCentred(c) == Px(CANVAS_HEIGHT) \div 2 - c.y

\* a camera that follows the car half of the way to the midline
CameraAdjustmentHalf(c) ==
  IF c.y < Px(CANVAS_HEIGHT) \div 2
  THEN (Px(CANVAS_HEIGHT) \div 2 - c.y) \div 2
  ELSE 0

\* "Adjust camera to follow car when it moves up": the adjustment, or 0
CameraAdjustment(c) ==
  IF c.y < Px(CANVAS_HEIGHT) \div 2 THEN Px(CANVAS_HEIGHT) \div 2 - c.y ELSE 0

\* a horizontal check of the left edge alone, and of the right edge alone
OffScreenLeft(c) == c.x < 0
OffScreenRight(c) == c.x > Px(CANVAS_WIDTH)

\* "Check if car went off screen horizontally"
OffScreen(c) == c.x < 0 \/ c.x > Px(CANVAS_WIDTH)

\* a setScore updater that does not consult the latch
ScoreUpdateUnlatched(st) ==
  LET newScore == st.score + COIN_VALUE
      trigger == newScore >= ACTION_SCORE_THRESHOLD
  IN [st EXCEPT !.score = newScore,
                !.latch = st.latch \/ trigger,
                !.timeouts = IF trigger THEN st.timeouts + 1 ELSE st.timeouts,
                !.over = st.over \/ newScore >= MAX_SCORE,
                !.gain = st.gain + 1]

\* a setScore updater that adds half the coin value
ScoreUpdateHalfValue(st) ==
  LET newScore == st.score + COIN_VALUE \div 2
      trigger == newScore >= ACTION_SCORE_THRESHOLD /\ ~st.latch
  IN [st EXCEPT !.score = newScore,
                !.latch = st.latch \/ trigger,
                !.timeouts = IF trigger THEN st.timeouts + 1 ELSE st.timeouts,
                !.over = st.over \/ newScore >= MAX_SCORE,
                !.gain = st.gain + 1]

\* a setScore updater that sets the latch without scheduling the callback
ScoreUpdateNoTimer(st) ==
  LET newScore == st.score + COIN_VALUE
      trigger == newScore >= ACTION_SCORE_THRESHOLD /\ ~st.latch
  IN [st EXCEPT !.score = newScore,
                !.latch = st.latch \/ trigger,
                !.over = st.over \/ newScore >= MAX_SCORE,
                !.gain = st.gain + 1]

\* the setScore updater: prev => newScore, with its effects on the latch,
\* the timer queue and isGameOver
ScoreUpdate(st) ==
  LET newScore == st.score + COIN_VALUE
      trigger == newScore >= ACTION_SCORE_THRESHOLD /\ ~st.latch
  IN [st EXCEPT !.score = newScore,
                !.latch = st.latch \/ trigger,
                !.timeouts = IF trigger THEN st.timeouts + 1 ELSE st.timeouts,
                !.over = st.over \/ newScore >= MAX_SCORE,
                !.gain = st.gain + 1]

\* "Only draw coins that are visible on screen"
CoinVisible(coinScreenY) ==
  ~(coinScreenY < -Px(VISIBLE_MARGIN)
    \/ coinScreenY > Px(CANVAS_HEIGHT) + Px(VISIBLE_MARGIN))

\* a pass that scores a touched coin without setting its collected flag
PickCoinUnmarked(st, i, c, cam) ==
  LET coin == st.coins[i]
      coinScreenY == coin.y + cam
  IN IF coin.collected THEN st
     ELSE IF ~CoinVisible(coinScreenY) THEN st
     ELSE IF checkCollision(c, [x |-> coin.x, y |-> coinScreenY])
          THEN ScoreUpdate(st)
          ELSE st

\* a pass that does not skip the coins already collected
PickCoinAgain(st, i, c, cam) ==
  LET coin == st.coins[i]
      coinScreenY == coin.y + cam
  IN IF ~CoinVisible(coinScreenY) THEN st
     ELSE IF checkCollision(c, [x |-> coin.x, y |-> coinScreenY])
          THEN ScoreUpdate([st EXCEPT !.coins[i].collected = TRUE])
          ELSE st

\* a pass that clears the flag of a collected coin the car no longer touches
PickCoinReleasing(st, i, c, cam) ==
  LET coin == st.coins[i]
      coinScreenY == coin.y + cam
      touched == checkCollision(c, [x |-> coin.x, y |-> coinScreenY])
  IN IF coin.collected
     THEN IF touched THEN st ELSE [st EXCEPT !.coins[i].collected = FALSE]
     ELSE IF ~CoinVisible(coinScreenY) THEN st
     ELSE IF touched
          THEN ScoreUpdate([st EXCEPT !.coins[i].collected = TRUE])
          ELSE st

\* One pass of state.coins.forEach over the coin at index i
PickCoin(st, i, c, cam) ==
  LET coin == st.coins[i]
      coinScreenY == coin.y + cam
  IN IF coin.collected THEN st
     ELSE IF ~CoinVisible(coinScreenY) THEN st
     ELSE IF checkCollision(c, [x |-> coin.x, y |-> coinScreenY])
          THEN ScoreUpdate([st EXCEPT !.coins[i].collected = TRUE])
          ELSE st

RECURSIVE ForEachCoin(_, _, _, _)
ForEachCoin(st, i, c, cam) ==
  IF i > Len(st.coins) THEN st
  ELSE ForEachCoin(PickCoin(st, i, c, cam), i + 1, c, cam)

\* A tick moves or turns the car when a control key is held
Active == keysPressed \cap Keys # {}

\* gameLoop behind the pause / game-over guard
Simulate ==
  LET turned == Turn(car, keysPressed)
      isMoving == " " \in keysPressed
      moved == IF isMoving THEN Move(turned) ELSE [turned EXCEPT !.speed = 0]
      extend == isMoving /\ NeedsExtend(roadPath, cameraOffsetY)
      adjustment == IF isMoving THEN CameraAdjustment(moved) ELSE 0
      car2 == [moved EXCEPT !.y = moved.y + adjustment]
      cam2 == cameraOffsetY + adjustment
  IN \E ext \in {IF extend THEN extendRoad(roadPath, coins, world)
                  ELSE [roadPath |-> roadPath, coins |-> coins]} :
     \E offRoad \in {isMoving /\ ~isCarOnRoad(car2, ext.roadPath)} :
     \E st \in {ForEachCoin([coins |-> ext.coins, score |-> score,
                             latch |-> actionTriggeredRef,
                             timeouts |-> timeouts, over |-> FALSE,
                             gain |-> 0],
                            1, car2, cam2)} :
       /\ car' = car2
       /\ roadPath' = ext.roadPath
       /\ cameraOffsetY' = cam2
       /\ coins' = st.coins
       /\ score' = st.score
       /\ speed' = car2.speed
       /\ actionTriggeredRef' = st.latch
       /\ timeouts' = st.timeouts
       /\ timerClosures' = IF st.timeouts > timeouts
                           THEN Append(timerClosures, Closure)
                           ELSE timerClosures
       /\ isGameOver' = (isGameOver \/ offRoad \/ OffScreen(car2) \/ st.over)
       /\ last' = [op |-> "Tick", sim |-> TRUE, moving |-> isMoving,
                   extended |-> extend, offRoad |-> offRoad,
                   offScreen |-> OffScreen(car2), gain |-> st.gain,
                   toast |-> "none"]

\* a loop effect that runs again without cancelling the pending frame
RerunLoopEffectNoCancel(f) == f + 1

\* The loop effect re-run on pending frames f: its cleanup calls
\* cancelAnimationFrame(animationFrameId), its body requestAnimationFrame
RerunLoopEffect(f) == Max(f - 1, 0) + 1

\* gameLoop on pending frames f: the callback that runs is no longer
\* pending, and both of its branches end in requestAnimationFrame(gameLoop)
NextFrame(f) == (f - 1) + 1

\* a guard that halts the loop only when the game is over
HaltedWhenOver == rIsGameOver

\* gameLoop: if (isPaused || isGameOver), in the closure of the last render
Halted == rIsPaused \/ rIsGameOver

\* gameLoop, one animation frame
Tick(maxTicks) ==
  /\ mounted
  /\ frames > 0
  /\ IF Halted
     THEN /\ last' = Step("Tick")
          /\ UNCHANGED << car, coins, roadPath, cameraOffsetY, score, speed,
                          actionTriggeredRef, timeouts, timerClosures,
                          isGameOver, ticks >>
     ELSE /\ Active => ticks < maxTicks
          /\ Simulate
          /\ ticks' = IF Active THEN ticks + 1 ELSE ticks
  /\ frames' = NextFrame(frames)
  /\ UNCHANGED << keysPressed, isPaused, rIsPaused, rIsGameOver,
                  screenActionTriggeredRef, showProcessActionTile, mounted,
                  world, keyChanges, resets,
                  callbackCalls, appVars, backendVars >>
  /\ UNCHANGED dialog

\* ------------------------------------------------------------ other steps
\* The two mount effects of useGameLoop: initializeRoad, initializeCoins,
\* the key listeners and the first requestAnimationFrame
Mount(ws) ==
  /\ Screen = "game"
  /\ ~mounted
  /\ \E w \in ws : \E path \in {initializeRoad(w)} :
       /\ world' = w
       /\ roadPath' = path
       /\ coins' = initializeCoins(path, w)
  /\ mounted' = TRUE
  /\ frames' = 1
  /\ last' = Step("Mount")
  /\ UNCHANGED << car, keysPressed, cameraOffsetY, score, speed,
                  actionTriggeredRef, timeouts, isPaused, isGameOver,
                  rIsPaused, rIsGameOver, screenActionTriggeredRef,
                  showProcessActionTile, ticks, keyChanges, resets,
                  callbackCalls, appVars, backendVars, timerClosures >>
  /\ UNCHANGED dialog

\* The player's key events and pause clicks arrive only every `period`
\* active ticks, and at most maxChanges key events of a session change the
\* pressed set.
KeyTime(period) == ticks % period = 0

\* handleKeyDown
handleKeyDown(k) == IF k \in Keys THEN keysPressed \cup {k} ELSE keysPressed
\* a keyup handler that leaves the key in the set
handleKeyUpIgnored(k) == keysPressed

\* handleKeyUp
handleKeyUp(k) == keysPressed \ {k}

KeyEvent(pressed, op, maxChanges) ==
  /\ keysPressed' = pressed
  /\ IF pressed = keysPressed
     THEN UNCHANGED << keyChanges, last >>
     ELSE /\ keyChanges < maxChanges
          /\ keyChanges' = keyChanges + 1
          /\ last' = Step(op)
  /\ UNCHANGED << car, coins, roadPath, cameraOffsetY, score, speed,
                  actionTriggeredRef, timeouts, isPaused, isGameOver,
                  rIsPaused, rIsGameOver, screenActionTriggeredRef,
                  showProcessActionTile, mounted, frames, world, ticks,
                  resets, callbackCalls, appVars, backendVars,
                  timerClosures >>
  /\ UNCHANGED dialog

KeyDown(period, maxChanges) ==
  /\ mounted
  /\ KeyTime(period)
  /\ \E k \in Keys \cup {OtherKey} : KeyEvent(handleKeyDown(k), "KeyDown", maxChanges)

KeyUp(period, maxChanges) ==
  /\ mounted
  /\ KeyTime(period)
  /\ \E k \in Keys \cup {OtherKey} : KeyEvent(handleKeyUp(k), "KeyUp", maxChanges)

\* a toggle that does not look at isGameOver
TogglePauseAlways == ~rIsPaused

\* handlePauseToggle: the value isPaused has after the click
TogglePause == IF ~rIsGameOver THEN ~rIsPaused ELSE isPaused

\* GameScreen.handlePauseToggle, as bound by the last render, and the
\* synchronous re-render of its update
handlePauseToggle(period) ==
  /\ mounted
  /\ KeyTime(period)
  /\ isPaused' = TogglePause
  /\ rIsPaused' = isPaused'
  /\ last' = Step("Pause")
  /\ frames' = IF rIsPaused' # rIsPaused THEN RerunLoopEffect(frames) ELSE frames
  /\ UNCHANGED << car, coins, roadPath, keysPressed, cameraOffsetY, score,
                  speed, actionTriggeredRef, timeouts, isGameOver,
                  rIsGameOver, screenActionTriggeredRef,
                  showProcessActionTile, mounted, world, ticks,
                  keyChanges, resets, callbackCalls, appVars, backendVars,
                  timerClosures >>
  /\ UNCHANGED dialog

\* a resetGame that leaves actionTriggeredRef as it is
resetGameKeepLatch(w) ==
  LET path == initializeRoad(w)
  IN
  [car |-> StartCar,
   roadPath |-> path,
   coins |-> initializeCoins(path, w),
   keysPressed |-> {},
   cameraOffsetY |-> 0,
   score |-> 0,
   speed |-> 0,
   actionTriggeredRef |-> actionTriggeredRef]

\* useGameLoop.resetGame: the game state it leaves, for world w
resetGame(w) ==
  LET path == initializeRoad(w)
  IN
  [car |-> StartCar,
   roadPath |-> path,
   coins |-> initializeCoins(path, w),
   keysPressed |-> {},
   cameraOffsetY |-> 0,
   score |-> 0,
   speed |-> 0,
   actionTriggeredRef |-> FALSE]

\* resetGame(w) for every world, computed once
FreshGame == [w \in Worlds \cup StartWorlds |-> resetGame(w)]

\* GameScreen.handleReset and the synchronous re-render of its updates
handleReset(ws) ==
  /\ mounted
  /\ resets < MaxResets
  /\ resets' = resets + 1
  /\ isGameOver' = FALSE
  /\ isPaused' = FALSE
  /\ showProcessActionTile' = FALSE
  /\ screenActionTriggeredRef' = FALSE
  /\ \E w \in ws : \E g \in {FreshGame[w]} :
          /\ world' = w
          /\ car' = g.car
          /\ roadPath' = g.roadPath
          /\ coins' = g.coins
          /\ keysPressed' = g.keysPressed
          /\ cameraOffsetY' = g.cameraOffsetY
          /\ score' = g.score
          /\ speed' = g.speed
          /\ actionTriggeredRef' = g.actionTriggeredRef
  /\ ticks' = 0
  /\ keyChanges' = 0
  /\ last' = Step("Reset")
  /\ rIsGameOver' = FALSE
  /\ rIsPaused' = FALSE
  /\ processActionError' = NoError
  /\ mutation' = "idle"
  /\ frames' = IF << rIsPaused, rIsGameOver >> # << FALSE, FALSE >>
                THEN RerunLoopEffect(frames)
                ELSE frames
  /\ UNCHANGED << timeouts, mounted, callbackCalls, appVars,
                  actorQuery, calls, timerClosures >>
  /\ UNCHANGED dialog

\* The re-render of GameScreen after a state change: the loop effect is
\* cleaned up (cancelAnimationFrame) and run again with the new values.
Render ==
  /\ mounted
  /\ << rIsPaused, rIsGameOver >> # << isPaused, isGameOver >>
  /\ rIsPaused' = isPaused
  /\ rIsGameOver' = isGameOver
  /\ frames' = RerunLoopEffect(frames)
  /\ last' = Step("Render")
  /\ UNCHANGED << car, coins, roadPath, keysPressed, cameraOffsetY, score,
                  speed, actionTriggeredRef, timeouts, isPaused, isGameOver,
                  screenActionTriggeredRef, showProcessActionTile, mounted,
                  world, ticks, keyChanges, resets,
                  callbackCalls, appVars, backendVars, timerClosures >>
  /\ UNCHANGED dialog

\* The timer callback scheduled by the score updater: it calls
\* onScoreThresholdReached = GameScreen.handleScoreThresholdReached
Callback ==
  /\ timeouts > 0
  /\ timeouts' = timeouts - 1
  /\ callbackCalls' = callbackCalls + 1
  /\ timerClosures' = Tail(timerClosures)
  /\ \E c \in {Head(timerClosures)} :
     \E refused \in {IF IdentityError(c) # NoError THEN IdentityError(c)
                     ELSE ActorError(c)} :
     \E thrown \in {MutationGuardError(actorQuery)} :
       IF screenActionTriggeredRef
       THEN /\ last' = Step("Callback")
            /\ UNCHANGED << screenActionTriggeredRef, showProcessActionTile,
                            mutation, calls, processActionError >>
       ELSE /\ screenActionTriggeredRef' = TRUE
            /\ showProcessActionTile' = TRUE
            /\ IF refused # NoError
               THEN /\ processActionError' = refused
                    /\ last' = Toast("Callback", "error")
                    /\ UNCHANGED << mutation, calls >>
               ELSE IF thrown # NoError
               THEN /\ mutation' = "error"
                    /\ processActionError' = thrown
                    /\ last' = Toast("Callback", "error")
                    /\ UNCHANGED calls
               ELSE /\ mutation' = "pending"
                    /\ calls' = Append(calls, [arg |-> ActionArg,
                                               session |-> resets])
                    /\ processActionError' = NoError
                    /\ last' = Step("Callback")
  /\ UNCHANGED << car, coins, roadPath, keysPressed, cameraOffsetY, score,
                  speed, actionTriggeredRef, isPaused, isGameOver, rIsPaused,
                  rIsGameOver, mounted, frames, world, ticks, keyChanges,
                  resets, appVars, actorQuery >>
  /\ UNCHANGED dialog

\* useInternetIdentity finishes loading the stored session: the identity it
\* found, if any
AuthInitialized(ids) ==
  /\ isInitializing
  /\ isInitializing' = FALSE
  /\ identity' \in ids
  /\ last' = Step("AuthInitialized")
  /\ UNCHANGED << gameVars, keysPressed, speed, actionTriggeredRef, timeouts,
                  isPaused, isGameOver, rIsPaused, rIsGameOver,
                  screenActionTriggeredRef, showProcessActionTile, mounted,
                  frames, world, ticks, keyChanges, resets, callbackCalls,
                  bggConnected, backendVars, timerClosures >>
  /\ UNCHANGED dialog

\* LoginScreen, the Start Playing button: login() and its completion
login(ids) ==
  /\ Screen = "login"
  /\ identity' \in ids
  /\ last' = Step("login")
  /\ UNCHANGED << gameVars, keysPressed, speed, actionTriggeredRef, timeouts,
                  isPaused, isGameOver, rIsPaused, rIsGameOver,
                  screenActionTriggeredRef, showProcessActionTile, mounted,
                  frames, world, ticks, keyChanges, resets, callbackCalls,
                  isInitializing, bggConnected, backendVars, timerClosures >>
  /\ UNCHANGED dialog

\* GameScreen, the Logout button: clear(), after which App renders
\* LoginScreen and GameScreen is unmounted, its state and that of its hooks
\* discarded and the loop effect cleaned up.  (A logout while a timer is
\* pending is left out.)
clear ==
  /\ mounted
  /\ timeouts = 0
  /\ identity' = "none"
  /\ mounted' = FALSE
  /\ frames' = 0
  /\ car' = StartCar
  /\ coins' = << >>
  /\ roadPath' = << >>
  /\ keysPressed' = {}
  /\ cameraOffsetY' = 0
  /\ score' = 0
  /\ speed' = 0
  /\ actionTriggeredRef' = FALSE
  /\ isPaused' = FALSE
  /\ isGameOver' = FALSE
  /\ rIsPaused' = FALSE
  /\ rIsGameOver' = FALSE
  /\ screenActionTriggeredRef' = FALSE
  /\ showProcessActionTile' = FALSE
  /\ processActionError' = NoError
  /\ mutation' = "idle"
  /\ actorQuery' = "loading"
  /\ world' = 0
  /\ ticks' = 0
  /\ keyChanges' = 0
  /\ last' = Step("clear")
  /\ UNCHANGED << timeouts, resets, callbackCalls, isInitializing,
                  bggConnected, timerClosures, calls >>
  /\ UNCHANGED dialog

\* ---------------------------------------------------- BGGConnectionDialog
\* a trim that returns the text as it is
trimNothing(cs) == cs

\* String.prototype.trim, for blanks
RECURSIVE trimStart(_)
trimStart(cs) == IF cs # << >> /\ Head(cs) = " " THEN trimStart(Tail(cs)) ELSE cs
RECURSIVE trimEnd(_)
trimEnd(cs) ==
  IF cs # << >> /\ cs[Len(cs)] = " " THEN trimEnd(SubSeq(cs, 1, Len(cs) - 1))
  ELSE cs
trim(cs) == trimEnd(trimStart(cs))

\* The texts the input can hold: empty, blank, and ids with and without
\* blanks around them
TypedIds ==
  { << >>, << " " >>, << " ", " " >>, << "a" >>, << " ", "b", " " >> }

\* The values the connect mutation is rejected with: an Error, or a value
\* that is no Error
ConnectRejections ==
  { [type |-> "Error", text |-> << "N", "o", " ", "g", "u", "i", "l", "d" >>],
    [type |-> "string", text |-> << "D", "e", "n", "i", "e", "d" >>] }

\* onError: error instanceof Error ? error.message : '...'
ConnectErrorMessage(error) ==
  IF error.type = "Error" THEN Chars(error.text)
  ELSE Fixed("Failed to connect BGG account")

\* The dialog as no component renders it: closed, its state at the
\* useState defaults
NotRendered ==
  [open |-> FALSE, isRequired |-> FALSE, bggPrincipalId |-> << >>,
   validationError |-> Fixed(""), isPending |-> FALSE, mutateCalls |-> << >>]

\* a close guard that passes every request on
handleOpenChangeUnguarded(d, newOpen) == newOpen

\* handleOpenChangeInternal: the value of `open` after the request, the
\* parent storing what onOpenChange hands it
handleOpenChangeInternal(d, newOpen) ==
  IF ~newOpen /\ d.isRequired THEN d.open ELSE newOpen

\* handleConnect on the dialog d: the dialog it leaves and the toast it shows
ConnectAttempt(d) ==
  IF trim(d.bggPrincipalId) = << >>
  THEN [dialog |-> [d EXCEPT !.validationError =
                                 Fixed("BGG Principal ID is required")],
        toast |-> "error"]
  ELSE [dialog |-> [d EXCEPT !.validationError = Fixed(""),
                             !.isPending = TRUE,
                             !.mutateCalls = Append(@, trim(d.bggPrincipalId))],
        toast |-> "none"]

\* what every step of the dialog leaves alone
DialogOnly ==
  UNCHANGED << gameVars, keysPressed, speed, actionTriggeredRef, timeouts,
               isPaused, isGameOver, rIsPaused, rIsGameOver,
               screenActionTriggeredRef, showProcessActionTile, mounted,
               frames, world, ticks, keyChanges, resets, callbackCalls,
               isInitializing, identity, backendVars, timerClosures >>

\* BGGConnectionDialog.handleConnect, from the Connect button (enabled when
\* no mutation is pending and the trimmed id is not empty) or from Enter in
\* the input (handleKeyDown, under the same condition)
handleConnect(maxConnects) ==
  /\ dialog.open
  /\ ~dialog.isPending
  /\ trim(dialog.bggPrincipalId) # << >>
  /\ Len(dialog.mutateCalls) < maxConnects
  /\ \E r \in {ConnectAttempt(dialog)} :
       /\ dialog' = r.dialog
       /\ last' = Toast("handleConnect", r.toast)
  /\ UNCHANGED bggConnected
  /\ DialogOnly

\* handleInputChange: the input is disabled while the mutation is pending
handleInputChange(ids) ==
  /\ dialog.open
  /\ ~dialog.isPending
  /\ \E v \in ids :
       dialog' = [dialog EXCEPT !.bggPrincipalId = v,
                                !.validationError =
                                   IF @ # Fixed("") THEN Fixed("") ELSE @]
  /\ last' = Step("handleInputChange")
  /\ UNCHANGED bggConnected
  /\ DialogOnly

\* A close request of the Dialog (Escape, a click outside, the close
\* button): onOpenChange = handleOpenChangeInternal, called with false
CloseRequest ==
  /\ dialog.open
  /\ dialog' = [dialog EXCEPT !.open = handleOpenChangeInternal(dialog, FALSE)]
  /\ last' = IF dialog.isRequired THEN Toast("CloseRequest", "warning")
             ELSE Step("CloseRequest")
  /\ UNCHANGED bggConnected
  /\ DialogOnly

\* The Cancel button: rendered when the dialog is not required, disabled
\* while the mutation is pending; it calls onOpenChange(false) itself
Cancel ==
  /\ dialog.open
  /\ ~dialog.isRequired
  /\ ~dialog.isPending
  /\ dialog' = [dialog EXCEPT !.open = FALSE]
  /\ last' = Step("Cancel")
  /\ UNCHANGED bggConnected
  /\ DialogOnly

\* The connect mutation settles: onSuccess or onError of handleConnect
ConnectSettles(errors) ==
  /\ dialog.isPending
  /\ \/ /\ dialog' = [dialog EXCEPT !.open = FALSE, !.bggPrincipalId = << >>,
                                    !.validationError = Fixed(""),
                                    !.isPending = FALSE]
        /\ bggConnected' = TRUE
        /\ last' = Toast("onSuccess", "success")
     \/ \E error \in errors :
          /\ dialog' = [dialog EXCEPT !.validationError = ConnectErrorMessage(error),
                                      !.isPending = FALSE]
          /\ bggConnected' = bggConnected
          /\ last' = Toast("onError", "error")
  /\ DialogOnly

\* useActor: the actor query of the mounted GameScreen settles
ActorSettles(period, outcomes) ==
  /\ mounted
  /\ KeyTime(period)
  /\ actorQuery = "loading"
  /\ actorQuery' \in outcomes
  /\ last' = Step("ActorSettles")
  /\ UNCHANGED << gameVars, keysPressed, speed, actionTriggeredRef, timeouts,
                  isPaused, isGameOver, rIsPaused, rIsGameOver,
                  screenActionTriggeredRef, showProcessActionTile, mounted,
                  frames, world, ticks, keyChanges, resets, callbackCalls,
                  appVars, timerClosures, mutation, calls,
                  processActionError >>
  /\ UNCHANGED dialog

\* useProcessAction, the rest of mutationFn once actor.processAction has
\* settled, then the onSuccess / onError passed to mutate
Resolved(op) ==
  /\ mutation' = "success"
  /\ last' = Toast(op, "success")
  /\ UNCHANGED processActionError

Rejected(error) ==
  \E message \in {ErrorMessage(error)} :
    IF isUnrelatedError(message)
    THEN Resolved("Rejected")
    ELSE /\ mutation' = "error"
         /\ processActionError' = message
         /\ last' = Toast("Rejected", "error")

ProcessActionSettles(errors) ==
  /\ mutation = "pending"
  /\ \/ Resolved("Resolved")
     \/ \E error \in errors : Rejected(error)
  /\ UNCHANGED << gameVars, keysPressed, speed, actionTriggeredRef, timeouts,
                  isPaused, isGameOver, rIsPaused, rIsGameOver,
                  screenActionTriggeredRef, showProcessActionTile, mounted,
                  frames, world, ticks, keyChanges, resets, callbackCalls,
                  appVars, timerClosures, actorQuery, calls >>
  /\ UNCHANGED dialog

\* ---------------------------------------------------------- specifications
\* The state after the first render of App, useInternetIdentity still
\* initializing; the GameScreen and useGameLoop values are those of their
\* first render, before the mount effects
InitOthers ==
  /\ coins = << >>
  /\ keysPressed = {}
  /\ cameraOffsetY = 0
  /\ score = 0
  /\ speed = 0
  /\ actionTriggeredRef = FALSE
  /\ timeouts = 0
  /\ isPaused = FALSE
  /\ isGameOver = FALSE
  /\ rIsPaused = FALSE
  /\ rIsGameOver = FALSE
  /\ screenActionTriggeredRef = FALSE
  /\ showProcessActionTile = FALSE
  /\ mounted = FALSE
  /\ frames = 0
  /\ world = 0
  /\ ticks = 0
  /\ keyChanges = 0
  /\ resets = 0
  /\ callbackCalls = 0
  /\ last = Step("Init")
  /\ isInitializing = TRUE
  /\ identity = "none"
  /\ bggConnected = FALSE
  /\ actorQuery = "loading"
  /\ timerClosures = << >>
  /\ mutation = "idle"
  /\ calls = << >>
  /\ processActionError = NoError

Init ==
  /\ car = StartCar
  /\ roadPath = << >>
  /\ InitOthers
  /\ dialog = NotRendered

\* Every interleaving of frames, key events and clicks over the first
\* MaxTicks active ticks of a session (no game ends and no timer is set
\* there)
Next ==
  \/ AuthInitialized({"user"})
  \/ Mount(Worlds)
  \/ Tick(MaxTicks)
  \/ KeyDown(1, MaxKeyChanges)
  \/ KeyUp(1, MaxKeyChanges)
  \/ handlePauseToggle(1)
  \/ handleReset(Worlds)

Spec == Init /\ [][Next]_vars

\* Long drives of one session: up to MaxDriveTicks active ticks, the keys
\* changing only every KeyPeriod ticks
NextDrive ==
  \/ AuthInitialized({"user"})
  \/ Mount(Worlds)
  \/ Tick(MaxDriveTicks)
  \/ KeyDown(KeyPeriod, MaxDriveKeyChanges)
  \/ KeyUp(KeyPeriod, MaxDriveKeyChanges)
  \/ handlePauseToggle(KeyPeriod)
  \/ Render

SpecDrive == Init /\ [][NextDrive]_vars

\* Full runs: up to MaxLongTicks active ticks, the keys chosen before the
\* first of them and held, with the deferred callback
NextLong ==
  \/ AuthInitialized({"user"})
  \/ Mount(Worlds)
  \/ Tick(MaxLongTicks)
  \/ KeyDown(MaxLongTicks + 1, MaxKeyChanges)
  \/ KeyUp(MaxLongTicks + 1, MaxKeyChanges)
  \/ handleReset(Worlds)
  \/ Render
  \/ Callback

SpecLong == Init /\ [][NextLong]_vars

\* The same runs, every timer set by setTimeout eventually firing
SpecLongFair == SpecLong /\ WF_vars(Callback)

\* The first MaxStartTicks active ticks of a session on every initial road
NextStart ==
  \/ AuthInitialized({"user"})
  \/ Mount(StartWorlds)
  \/ Tick(MaxStartTicks)
  \/ KeyDown(1, MaxKeyChanges)
  \/ KeyUp(1, MaxKeyChanges)

SpecStart == Init /\ [][NextStart]_vars

\* Drives that end: up to MaxOverTicks active ticks with the keys chosen
\* before the first of them and held, pause and reset clicks at any time
NextOver ==
  \/ AuthInitialized({"user"})
  \/ Mount(Worlds)
  \/ Tick(MaxOverTicks)
  \/ KeyDown(MaxOverTicks + 1, MaxKeyChanges)
  \/ KeyUp(MaxOverTicks + 1, MaxKeyChanges)
  \/ handlePauseToggle(1)
  \/ handleReset(Worlds)
  \/ Render

SpecOver == Init /\ [][NextOver]_vars

\* the world whose first coin a straight drive passes without touching it
ReturnWorlds == {1}

\* Drives that come back: up to MaxReturnTicks active ticks, the keys
\* changing every ReturnKeyPeriod ticks, long enough to pass a coin, turn
\* round and drive down to it
NextReturn ==
  \/ AuthInitialized({"user"})
  \/ Mount(ReturnWorlds)
  \/ Tick(MaxReturnTicks)
  \/ KeyDown(ReturnKeyPeriod, MaxReturnKeyChanges)
  \/ KeyUp(ReturnKeyPeriod, MaxReturnKeyChanges)
  \/ Render

SpecReturn == Init /\ [][NextReturn]_vars

\* Drives on the road of LossWorld, whose upper part lies far to the right
\* of the part isCarOnRoad compares the car with
NextLoss ==
  \/ AuthInitialized({"user"})
  \/ Mount({LossWorld})
  \/ Tick(MaxLossTicks)
  \/ KeyDown(LossKeyPeriod, MaxLossKeyChanges)
  \/ KeyUp(LossKeyPeriod, MaxLossKeyChanges)
  \/ Render

SpecLoss == Init /\ [][NextLoss]_vars

\* The dialog as a parent would render it, open, required or not
InitDialog ==
  /\ car = StartCar
  /\ roadPath = << >>
  /\ InitOthers
  /\ dialog \in {[NotRendered EXCEPT !.open = TRUE, !.isRequired = r] :
                   r \in BOOLEAN}

NextDialog ==
  \/ handleInputChange(TypedIds)
  \/ handleConnect(MaxConnects)
  \/ CloseRequest
  \/ Cancel
  \/ ConnectSettles(ConnectRejections)

SpecDialog == InitDialog /\ [][NextDialog]_vars

\* isCarOnRoad as a function of the car and the path: the positions and the
\* point lists it is applied to.  The lists are the initial roads and lists
\* no game builds (none, one point, two coincident points, a single
\* vertical, horizontal or slanted segment).
ProbeCars ==
  {[x |-> x, y |-> y, angle |-> 0, speed |-> 0] :
     x \in {Px(150), Px(220) - 1, Px(220), Px(220) + 1, Px(300), Px(400),
            Px(448), Px(580) - 1, Px(580), Px(580) + 1, Px(700)},
     y \in {Px(660), Px(570), Px(540), Px(300), Px(100)}}

ProbePaths ==
  {initializeRoad(w) : w \in Worlds}
    \cup {<< >>,
          << [x |-> Px(400), y |-> Px(600)] >>,
          << [x |-> Px(400), y |-> Px(600)], [x |-> Px(400), y |-> Px(600)] >>,
          << [x |-> Px(400), y |-> Px(600)], [x |-> Px(400), y |-> Px(540)] >>,
          << [x |-> Px(370), y |-> Px(540)], [x |-> Px(430), y |-> Px(540)] >>,
          << [x |-> Px(400), y |-> Px(600)], [x |-> Px(448), y |-> Px(540)],
             [x |-> Px(448), y |-> Px(540)], [x |-> Px(400), y |-> Px(480)] >>}

InitGeometry ==
  /\ car \in ProbeCars
  /\ roadPath \in ProbePaths
  /\ InitOthers
  /\ dialog = NotRendered

\* one call isCarOnRoad(state.car), its result kept in last.offRoad
isCarOnRoadCall ==
  /\ last.op = "Init"
  /\ last' = [Step("isCarOnRoad") EXCEPT !.offRoad = ~isCarOnRoad(car, roadPath)]
  /\ UNCHANGED << gameVars, keysPressed, speed, actionTriggeredRef, timeouts,
                  isPaused, isGameOver, rIsPaused, rIsGameOver,
                  screenActionTriggeredRef, showProcessActionTile, mounted,
                  frames, world, ticks, keyChanges, resets, callbackCalls,
                  appVars, backendVars, timerClosures >>
  /\ UNCHANGED dialog

SpecGeometry == InitGeometry /\ [][isCarOnRoadCall]_vars

\* The screens of App: any stored identity, login, logout, and the first
\* MaxTicks active ticks of each game
NextApp ==
  \/ AuthInitialized(Identities \cup {"none"})
  \/ login(Identities)
  \/ clear
  \/ Mount(Worlds)
  \/ Tick(MaxTicks)
  \/ KeyDown(1, MaxKeyChanges)
  \/ KeyUp(1, MaxKeyChanges)

SpecApp == Init /\ [][NextApp]_vars

\* the world whose road leads a straight drive to score 300
MilestoneWorlds == {0}

\* Full runs with the backend: any identity, one key pressed before the
\* first active tick and held (no game ends there), the actor query
\* settling before the first active tick or after the last, and the
\* processAction call settling with any outcome
NextMilestone ==
  \/ AuthInitialized(Identities)
  \/ Mount(MilestoneWorlds)
  \/ Tick(MaxLongTicks)
  \/ KeyDown(MaxLongTicks + 1, MaxMilestoneKeyChanges)
  \/ handleReset(MilestoneWorlds)
  \/ Callback
  \/ ActorSettles(MaxLongTicks, {"ready"})
  \/ ProcessActionSettles(Rejections)

SpecMilestone == Init /\ [][NextMilestone]_vars

\* The same runs, every timer eventually firing, the actor query and the
\* processAction call eventually settling
SpecMilestoneFair ==
  /\ SpecMilestone
  /\ WF_vars(Callback)
  /\ WF_vars(ActorSettles(MaxLongTicks, {"ready"}))
  /\ WF_vars(ProcessActionSettles(Rejections))

\* ------------------------------------------------------------------ claims
\* C1: in every reachable state (after initializeRoad, after any number of
\* extendRoad calls, after resetGame) every point of roadPath has x in
\* [ROAD_WIDTH / 2, CANVAS_WIDTH - ROAD_WIDTH / 2] = [200, 600].
C1_RoadWithinBounds ==
  \A i \in 1 .. Len(roadPath) :
    /\ roadPath[i].x >= 200 * Scale
    /\ roadPath[i].x <= 600 * Scale

\* a tick has extended a road that runs along the right-hand limit
C1_Witness ==
  /\ last.op = "Tick"
  /\ last.extended
  /\ Len(roadPath) > INITIAL_SEGMENTS + 1
  /\ roadPath[Len(roadPath)].x = 600 * Scale

\* C2: whenever a thrust-on tick finds the last path point's y +
\* cameraOffsetY above -200 and calls extendRoad, the last path point's y +
\* cameraOffsetY is at most -200 when extendRoad returns.
C2_ExtendRestoresHorizon ==
  [][(last'.op = "Tick" /\ last'.extended)
       => /\ roadPath[Len(roadPath)].y + cameraOffsetY > -200 * Scale
          /\ roadPath'[Len(roadPath')].y + cameraOffsetY <= -200 * Scale]_vars

\* a tick has extended the road for the second time in a session
C2_Witness ==
  /\ last.op = "Tick"
  /\ last.moving
  /\ last.extended
  /\ Len(roadPath) = INITIAL_SEGMENTS + 1 + 2 * EXTEND_SEGMENTS

CollectedCoins == {i \in 1 .. Len(coins) : coins[i].collected}

\* C4: in every reachable state score is 10 times the number of coins of the
\* current list whose collected flag is true.
C4_ScoreCountsCollected == score = 10 * Cardinality(CollectedCoins)

\* three coins have been collected, one of them spawned by extendRoad
C4_Witness ==
  /\ score >= 30
  /\ \E i \in CollectedCoins : coins[i].y < roadPath[INITIAL_SEGMENTS + 1].y

\* coin i of the list after the step overlaps the car after the step
OverlapsAfter(i) ==
  LET dx == car'.x - coins'[i].x
      dy == car'.y - (coins'[i].y + cameraOffsetY')
  IN 4 * (dx * dx + dy * dy) < (64 * Scale + 24 * Scale) * (64 * Scale + 24 * Scale)

\* C5: a simulating tick in which the car overlaps a coin that was already
\* collected, and no coin that was not, leaves the score unchanged.
C5_CollectedCoinScoresOnce ==
  [][(/\ last'.op = "Tick"
      /\ last'.sim
      /\ \E i \in 1 .. Len(coins) : coins[i].collected /\ OverlapsAfter(i)
      /\ \A j \in 1 .. Len(coins') :
           OverlapsAfter(j) => (j <= Len(coins) /\ coins[j].collected))
       => score' = score]_vars

\* a tick has left the car on top of a coin collected earlier without scoring
C5_Witness ==
  /\ last.op = "Tick"
  /\ last.sim
  /\ last.moving
  /\ last.gain = 0
  /\ score > 0
  /\ \E i \in CollectedCoins :
       LET dx == car.x - coins[i].x
           dy == car.y - (coins[i].y + cameraOffsetY)
       IN 4 * (dx * dx + dy * dy) < (64 * Scale + 24 * Scale) * (64 * Scale + 24 * Scale)

\* the number of times the callback has been scheduled or has run
Emissions == timeouts + callbackCalls

C7_OffScreenEndsGame ==
  [][(/\ last'.op = "Tick"
      /\ last'.sim
      /\ (car'.x < 0 \/ car'.x > 800 * Scale))
       => (isGameOver' /\ last'.offScreen)]_vars

\* a simulating tick has left the car beyond a vertical edge of the canvas
C7_Witness ==
  /\ last.op = "Tick"
  /\ last.sim
  /\ (car.x < 0 \/ car.x > 800 * Scale)
  /\ last.offScreen
  /\ isGameOver

\* C8: from the initial / reset state (car at x = 400, y = 500, heading
\* -90 degrees) one tick with only thrust pressed leaves car.x = 400 and
\* car.y = 494, finds the car on the road and leaves the game running, on
\* every initial road.
C8_FirstThrustTick ==
  [][(/\ last'.op = "Tick"
      /\ last'.sim
      /\ car = StartCar
      /\ cameraOffsetY = 0
      /\ keysPressed = {" "})
       => /\ car'.x = 400 * Scale
          /\ car'.y = 494 * Scale
          /\ car'.angle = car.angle
          /\ cameraOffsetY' = 0
          /\ ~last'.offRoad
          /\ ~isGameOver']_vars

\* the first thrust tick has run on the initial road that drifts left at
\* every draw
C8_Witness ==
  /\ world = StartBase
  /\ last.op = "Tick"
  /\ last.moving
  /\ ticks = 1
  /\ keysPressed = {" "}
  /\ car.y = 494 * Scale

C10_OverHaltsSimulation ==
  [][(isGameOver /\ last'.op = "Tick") => UNCHANGED gameVars]_vars

\* C11: while isPaused is set no step other than a reset changes the vehicle
\* (position, angle, speed), roadPath, coins, cameraOffsetY or score, even
\* with turn or thrust keys held; so the values at resume are those at pause.
C11_PausedChangesNothing ==
  [][(isPaused /\ resets' = resets)
       => /\ car' = car
          /\ roadPath' = roadPath
          /\ coins' = coins
          /\ cameraOffsetY' = cameraOffsetY
          /\ score' = score
          /\ speed' = speed]_vars

\* a frame has run while paused after the car had moved, with thrust and a
\* turn key held
C11_Witness ==
  /\ isPaused
  /\ last.op = "Tick"
  /\ ~last.sim
  /\ ticks > 0
  /\ " " \in keysPressed
  /\ "ArrowLeft" \in keysPressed

\* drawRoad: the path as drawn, every point shifted by cameraOffsetY
DrawnPath(path, cam) ==
  [i \in 1 .. Len(path) |-> [x |-> path[i].x, y |-> path[i].y + cam]]

\* C12: on every thrust-on tick that leaves the car, at its drawn position,
\* farther than 180 from every road segment as drawn (path points shifted by
\* cameraOffsetY), the game is ended on that same tick.
C12_OffVisibleRoadEndsGame ==
  [][(/\ last'.op = "Tick"
      /\ last'.sim
      /\ last'.moving
      /\ MinDistSq(car', DrawnPath(roadPath', cameraOffsetY'))
           > (180 * Scale) * (180 * Scale))
       => (last'.offRoad /\ isGameOver')]_vars

\* the processAction calls made during session s
CallsIn(s) == {i \in 1 .. Len(calls) : calls[i].session = s}

\* C14: in every session in which the score reaches 300 with a
\* non-anonymous principal logged in, processAction is called during that
\* session, and no session has a second call.
C14_ProcessActionOncePerSession ==
  /\ [](\A s \in 0 .. MaxResets : Cardinality(CallsIn(s)) <= 1)
  /\ \A s \in 0 .. MaxResets :
       [](resets = s /\ score >= ACTION_SCORE_THRESHOLD /\ identity = "user")
         ~> (CallsIn(s) # {})

\* C15: processAction is never invoked while the identity is missing or
\* anonymous: a callback that finds such an identity stores an error message
\* and leaves the mutation alone.
C15_NoCallWithoutPrincipal ==
  [][/\ calls' # calls => identity = "user"
     /\ (/\ last'.op = "Callback"
         /\ ~screenActionTriggeredRef
         /\ Head(timerClosures).identity # "user")
          => /\ calls' = calls
             /\ mutation' = mutation
             /\ processActionError' \in
                  {Fixed("User identity not found. Please log in again."),
                   Fixed("Anonymous users cannot process actions. Please log in with Internet Identity.")}]_vars

C15_Witness ==
  /\ identity = "anonymous"
  /\ actorQuery = "ready"
  /\ last.op = "Callback"
  /\ score >= ACTION_SCORE_THRESHOLD
  /\ showProcessActionTile
  /\ processActionError # NoError
  /\ calls = << >>

\* C16: whenever actor.processAction rejects, whatever the error value, the
\* mutation ends in the error state, processActionError is set to the
\* message extracted from the error, an error toast is shown and no success
\* toast.
C16_RejectionShowsError ==
  [][last'.op = "Rejected"
       => /\ mutation' = "error"
          /\ \E error \in Rejections : processActionError' = ErrorMessage(error)
          /\ last'.toast = "error"]_vars

\* C17: every processAction call carries an ActionArg whose fields contain an
\* entry with the key target_principal_id.
C17_ArgCarriesTargetPrincipal ==
  \A i \in 1 .. Len(calls) :
    \E j \in 1 .. Len(calls[i].arg.fields) :
      calls[i].arg.fields[j][1] = "target_principal_id"

\* C18: the game screen is not shown, and the game loop is not started, before
\* the user's BOOM Gaming Guilds principal id has been connected.
C18_GameAfterBGGConnection ==
  (Screen = "game" \/ mounted) => bggConnected

\* C19: GameScreen is rendered (and mounted) only with an identity present
\* and the initialization finished; while isInitializing holds neither the
\* game nor the login screen is shown; with no identity only the login
\* screen is shown.
C19_ScreenFollowsIdentity ==
  /\ (Screen = "game" \/ mounted) => (identity # "none" /\ ~isInitializing)
  /\ isInitializing => Screen \notin {"game", "login"}
  /\ (~isInitializing /\ identity = "none") => Screen = "login"

C19_Witness ==
  /\ Screen = "login"
  /\ last.op = "clear"
  /\ calls = << >>
  /\ ~mounted

\* C20: from one state to the next the score never decreases unless the step
\* is a reset, and in every reachable state the score is a multiple of
\* COIN_VALUE = 10.
C20_ScoreMonotoneMultipleOfTen ==
  /\ [][resets' = resets => score' >= score]_vars
  /\ [](score % 10 = 0)

C20_Witness ==
  /\ resets = 1
  /\ score >= 20
  /\ last.op = "Tick"
  /\ last.gain = 1

\* the coins whose collected flag the step sets
NewlyCollected ==
  {i \in 1 .. Len(coins) : ~coins[i].collected /\ coins'[i].collected}

\* C21: every coin is created with collected = FALSE (by the mount effects,
\* by resetGame and by extendRoad); no step other than a reset removes a
\* coin, moves it or clears its flag; and a step adds COIN_VALUE to the score
\* once for each flag it sets, so a coin scores at most once between resets.
C21_CollectedNeverReverts ==
  [][/\ (last'.op \in {"Mount", "Reset"})
          => \A i \in 1 .. Len(coins') : ~coins'[i].collected
     /\ (last'.op \notin {"Mount", "Reset"})
          => /\ Len(coins') >= Len(coins)
             /\ \A i \in 1 .. Len(coins) :
                  /\ coins'[i].x = coins[i].x
                  /\ coins'[i].y = coins[i].y
                  /\ coins[i].collected => coins'[i].collected
             /\ \A i \in (Len(coins) + 1) .. Len(coins') : ~coins'[i].collected
             /\ score' - score = COIN_VALUE * Cardinality(NewlyCollected)]_vars

C21_Witness ==
  /\ last.op = "Tick"
  /\ last.extended
  /\ last.gain = 0
  /\ Len(coins) > 0
  /\ coins[1].collected
  /\ ~coins[Len(coins)].collected
  /\ resets = 1

\* C22: in every tick the world position (car.x, car.y - cameraOffsetY)
\* moves by the forward vector MOVE_SPEED * (cos angle, sin angle) of the
\* heading after turning when thrust is on (so by at most MOVE_SPEED, here
\* up to the rounding of the fixed point coordinates) and not at all when
\* thrust is off or the loop is halted; the camera adjustment does not
\* change it.
C22_WorldStepIsForwardVector ==
  [][last'.op = "Tick"
       => LET dx == car'.x - car.x
              dy == (car'.y - cameraOffsetY') - (car.y - cameraOffsetY)
          IN IF last'.sim /\ last'.moving
             THEN /\ dx * dx + dy * dy <= (Px(MOVE_SPEED) + 1) * (Px(MOVE_SPEED) + 1)
                  /\ Abs(1000 * dx - Px(MOVE_SPEED) * CosMilli(car'.angle)) <= 500
                  /\ Abs(1000 * dy - Px(MOVE_SPEED) * SinMilli(car'.angle)) <= 500
             ELSE dx = 0 /\ dy = 0]_vars

C22_Witness ==
  /\ last.op = "Tick"
  /\ last.sim
  /\ last.moving
  /\ cameraOffsetY > 0
  /\ car.angle # 0
  /\ car.y = Px(CANVAS_HEIGHT) \div 2

\* C23: onScoreThresholdReached never runs inside a tick: the tick that
\* crosses the threshold only queues it, and it runs in a later step of its
\* own, which changes neither coins nor score.
C23_CallbackDeferred ==
  [][/\ last'.op = "Tick"
          => /\ callbackCalls' = callbackCalls
             /\ screenActionTriggeredRef' = screenActionTriggeredRef
             /\ showProcessActionTile' = showProcessActionTile
             /\ (score < ACTION_SCORE_THRESHOLD /\ score' >= ACTION_SCORE_THRESHOLD)
                  => (timeouts' = timeouts + 1 /\ timeouts' > 0)
     /\ callbackCalls' # callbackCalls
          => /\ last'.op = "Callback"
             /\ timeouts > 0
             /\ coins' = coins
             /\ score' = score]_vars

C23_Witness ==
  /\ last.op = "Callback"
  /\ callbackCalls = 1
  /\ timeouts = 0
  /\ score = ACTION_SCORE_THRESHOLD
  /\ showProcessActionTile
  /\ resets = 0

\* C24: once the game is over only a reset clears isGameOver, in the state
\* store and in the rendered value; a pause click on a rendered game-over
\* leaves isPaused as it is.
C24_OverLeftOnlyByReset ==
  [][/\ (isGameOver /\ ~isGameOver') => last'.op = "Reset"
     /\ (rIsGameOver /\ ~rIsGameOver') => last'.op = "Reset"
     /\ (rIsGameOver /\ last'.op = "Pause")
          => /\ isPaused' = isPaused
             /\ rIsPaused' = rIsPaused
             /\ isGameOver'
             /\ UNCHANGED gameVars]_vars

C24_Witness ==
  /\ rIsGameOver
  /\ isGameOver
  /\ last.op = "Pause"
  /\ ~isPaused
  /\ ~rIsPaused
  /\ resets = 0

RECURSIVE IsqrtBetween(_, _, _)
IsqrtBetween(n, lo, hi) ==
  IF lo >= hi THEN lo
  ELSE LET mid == (lo + hi + 1) \div 2
       IN IF mid * mid <= n THEN IsqrtBetween(n, mid, hi)
          ELSE IsqrtBetween(n, lo, mid - 1)
Isqrt(n) == IsqrtBetween(n, 0, 40000)

\* The squares of the distances from c to SampleCount + 1 points spread
\* evenly over each segment of path, both ends included
SampledDistSq(c, path) ==
  {LET x == path[i].x + RoundDiv(k * (path[i + 1].x - path[i].x), SampleCount)
       y == path[i].y + RoundDiv(k * (path[i + 1].y - path[i].y), SampleCount)
   IN (c.x - x) * (c.x - x) + (c.y - y) * (c.y - y) :
     i \in 1 .. (Len(path) - 1), k \in 0 .. SampleCount}

\* C26: the minimum distance isCarOnRoad computes is the least distance
\* from the car to the points of the segments (here compared with the least
\* distance to densely sampled points, within DistTolerance tenths of a
\* pixel); for a path of coincident points it is the distance to that point;
\* with fewer than two points it stays Infinity.
C26_MinDistanceIsEuclidean ==
  LET m == MinDistSq(car, roadPath)
      s == SampledDistSq(car, roadPath)
  IN /\ Len(roadPath) < 2 => m = -1
     /\ Len(roadPath) >= 2
          => /\ m >= 0
             /\ \A d \in s : Isqrt(m) <= Isqrt(d) + DistTolerance
             /\ \E d \in s : Isqrt(d) <= Isqrt(m) + DistTolerance
     /\ (Len(roadPath) >= 2 /\ \A i \in 1 .. Len(roadPath) : roadPath[i] = roadPath[1])
          => m = (car.x - roadPath[1].x) * (car.x - roadPath[1].x)
                 + (car.y - roadPath[1].y) * (car.y - roadPath[1].y)

C26_Witness ==
  /\ last.op = "isCarOnRoad"
  /\ Len(roadPath) = 4
  /\ roadPath[2] = roadPath[3]
  /\ car.x = Px(700)
  /\ car.y = Px(540)
  /\ ~last.offRoad = (MinDistSq(car, roadPath) < RoadLimit * RoadLimit)

\* the coin at index i of the next state lies, at its on-screen position,
\* less than 44 from the car of the next state
WithinPickup(i) ==
  LET dx == car'.x - coins'[i].x
      dy == car'.y - (coins'[i].y + cameraOffsetY')
  IN dx * dx + dy * dy < (44 * Scale) * (44 * Scale)

\* C27: a simulating tick collects exactly the coins that were uncollected
\* and lie less than 44 from the car, on or off the canvas, and adds 10 to
\* the score for each of them.
C27_PickupIffWithinRadius ==
  [][(last'.op = "Tick" /\ last'.sim)
       => /\ \A i \in 1 .. Len(coins') :
               (i > Len(coins) \/ ~coins[i].collected)
                 => (coins'[i].collected <=> WithinPickup(i))
          /\ score' = score + COIN_VALUE * last'.gain
          /\ last'.gain = Cardinality({i \in 1 .. Len(coins') :
                                         /\ i > Len(coins) \/ ~coins[i].collected
                                         /\ WithinPickup(i)})]_vars

\* C28: a simulating tick without the thrust key leaves car.x, car.y,
\* cameraOffsetY and roadPath as they were and reports speed 0; a
\* simulating tick with the thrust key reports speed MOVE_SPEED.
C28_ThrustOffStandsStill ==
  [][(last'.op = "Tick" /\ last'.sim)
       => IF " " \in keysPressed
          THEN speed' = MOVE_SPEED /\ car'.speed = MOVE_SPEED
          ELSE /\ car'.x = car.x
               /\ car'.y = car.y
               /\ cameraOffsetY' = cameraOffsetY
               /\ roadPath' = roadPath
               /\ speed' = 0
               /\ car'.speed = 0]_vars

\* a thrust-off tick of a car that has driven and turns where it stands
C28_Witness ==
  /\ last.op = "Tick"
  /\ last.sim
  /\ ~last.moving
  /\ speed = 0
  /\ cameraOffsetY > 0
  /\ car.x # StartCar.x
  /\ keysPressed \cap {"ArrowLeft", "ArrowRight"} # {}

\* C29: a tick changes cameraOffsetY only when thrust is on and the moved
\* car is above the middle of the canvas (car.y < 300); that tick shifts
\* cameraOffsetY and car.y by the same amount and leaves car.y at 300.
C29_CameraFollowsOnlyUnderThrust ==
  [][(last'.op = "Tick")
       => LET moved == Move(Turn(car, keysPressed))
              half == Px(CANVAS_HEIGHT) \div 2
          IN IF last'.sim /\ " " \in keysPressed /\ moved.y < half
             THEN /\ car'.y = half
                  /\ cameraOffsetY' - cameraOffsetY = car'.y - moved.y
                  /\ cameraOffsetY' > cameraOffsetY
             ELSE cameraOffsetY' = cameraOffsetY]_vars

\* the camera has followed a car that is heading up at a slant
C29_Witness ==
  /\ last.op = "Tick"
  /\ last.moving
  /\ cameraOffsetY > 0
  /\ car.y = Px(CANVAS_HEIGHT) \div 2
  /\ car.angle # StartCar.angle

\* coin c lies on segment k of the path: at the mean of the y of points k
\* and k + 1, and within 20 of the mean of their x
AtMidpoint(c, k) ==
  /\ 2 * c.y = roadPath[k].y + roadPath[k + 1].y
  /\ 2 * c.x - (roadPath[k].x + roadPath[k + 1].x) <= 2 * Px(20)
  /\ (roadPath[k].x + roadPath[k + 1].x) - 2 * c.x <= 2 * Px(20)

\* C30: every coin, from initializeCoins or from extendRoad, lies at the
\* midpoint of a path segment up to a lateral jitter of 20, and no segment
\* holds more than one coin.
C30_CoinsAtSegmentMidpoints ==
  /\ \A i \in 1 .. Len(coins) :
       \E k \in 1 .. Len(roadPath) - 1 : AtMidpoint(coins[i], k)
  /\ \A i, j \in 1 .. Len(coins) :
       \A k \in 1 .. Len(roadPath) - 1 :
         (AtMidpoint(coins[i], k) /\ AtMidpoint(coins[j], k)) => i = j

\* C31: counting the segments of the path from 0, only a segment whose
\* index is a multiple of 3 changes x, in the initial run and in every
\* extension alike.
C31_DriftEveryThirdSegment ==
  \A k \in 0 .. Len(roadPath) - 2 :
    roadPath[k + 2].x # roadPath[k + 1].x => k % 3 = 0

\* C32: in every reachable state each path point lies exactly SEGMENT_WIDTH
\* (60) above its predecessor, across the seams of extendRoad as well, so
\* y strictly decreases along the path and no two consecutive points
\* coincide.
C32_PathStepsUpBySegmentWidth ==
  \A i \in 1 .. Len(roadPath) - 1 :
    /\ roadPath[i + 1].y = roadPath[i].y - SEGMENT_WIDTH * Scale
    /\ roadPath[i + 1] # roadPath[i]

\* the road of a session after a reset has been extended three times
C32_Witness ==
  /\ resets > 0
  /\ last.op = "Tick"
  /\ last.extended
  /\ Len(roadPath) = INITIAL_SEGMENTS + 1 + 3 * EXTEND_SEGMENTS

\* C33: key events are coalesced.  After a keydown of a key that was not
\* held, the keyup of that key gives back the pressed set of before (a tap
\* between two ticks leaves nothing behind), and a second keydown of the
\* key changes nothing; a simulating tick turns and moves by the set it
\* finds, and with no control key held it leaves the car where it is.
C33_KeyEventsCoalesced ==
  [][/\ \A k \in Keys \cup {OtherKey} :
          (last'.op = "KeyDown" /\ k \notin keysPressed /\ keysPressed' = handleKeyDown(k))
            => /\ (handleKeyUp(k))' = keysPressed
               /\ (handleKeyDown(k))' = keysPressed'
     /\ (last'.op = "Tick" /\ last'.sim)
          => /\ car'.angle = car.angle
                  + (IF "ArrowRight" \in keysPressed THEN TURN_SPEED ELSE 0)
                  - (IF "ArrowLeft" \in keysPressed THEN TURN_SPEED ELSE 0)
             /\ last'.moving = (" " \in keysPressed)
             /\ keysPressed \cap Keys = {}
                  => (car'.x = car.x /\ car'.y = car.y)]_vars

\* a tick has run after a key was pressed and released with no tick
\* between the two events, and the car is where it started
C33_Witness ==
  /\ last.op = "Tick"
  /\ last.sim
  /\ keyChanges = 2
  /\ keysPressed = {}
  /\ ticks = 0
  /\ resets = 0
  /\ car = StartCar

\* C34: while the game loop is mounted exactly one animation-frame
\* callback is pending, after every tick in every phase and after every
\* re-run of the loop effect, and none is pending when it is not mounted.
C34_OnePendingFrame ==
  /\ [](frames = (IF mounted THEN 1 ELSE 0))
  /\ [][(last'.op \in {"Tick", "Render", "Pause", "Reset"}) => frames' = 1]_vars

\* a frame has found the rendered game over and halted, and one frame is
\* pending after it
C34_Witness ==
  /\ last.op = "Tick"
  /\ ~last.sim
  /\ rIsGameOver
  /\ ~rIsPaused
  /\ frames = 1

\* the text is empty or holds blanks only
Blank(cs) == \A i \in 1 .. Len(cs) : cs[i] = " "

\* C35: a required BGGConnectionDialog goes from open to closed only in
\* the success handler of the connect mutation; a close request leaves it
\* open; handleConnect on an empty or blank id sets the validation error
\* and neither calls the mutation nor makes it pending, and every call of
\* the mutation carries a trimmed id that is not empty.
C35_RequiredDialogClosesOnSuccessOnly ==
  /\ [][(dialog.isRequired /\ dialog.open /\ ~dialog'.open)
          => last'.op = "onSuccess"]_vars
  /\ [][(dialog.isRequired /\ last'.op = "CloseRequest")
          => (dialog'.open /\ last'.toast = "warning")]_vars
  /\ [](\A id \in TypedIds :
          Blank(id) =>
            LET r == ConnectAttempt([dialog EXCEPT !.bggPrincipalId = id])
            IN /\ r.dialog.validationError = Fixed("BGG Principal ID is required")
               /\ r.dialog.mutateCalls = dialog.mutateCalls
               /\ r.dialog.isPending = dialog.isPending
               /\ r.dialog.open = dialog.open)
  /\ [](\A i \in 1 .. Len(dialog.mutateCalls) :
          LET id == dialog.mutateCalls[i]
          IN id # << >> /\ Head(id) # " " /\ id[Len(id)] # " ")

\* a required dialog has refused a close request after a connect attempt
\* failed, and is still open with the error shown
C35_Witness ==
  /\ dialog.isRequired
  /\ dialog.open
  /\ last.op = "CloseRequest"
  /\ last.toast = "warning"
  /\ Len(dialog.mutateCalls) > 0
  /\ dialog.validationError # Fixed("")

\* C36: the horizontal check is never the only cause of a loss.  A
\* simulating tick that leaves car.x below 0 or above CANVAS_WIDTH either
\* raises game over by the off-path test as well or finds the game over
\* already; so while the game is not over car.x lies within [0, 800].
C36_OffScreenNeverAlone ==
  /\ [][(/\ last'.op = "Tick"
         /\ last'.sim
         /\ (car'.x < 0 \/ car'.x > CANVAS_WIDTH * Scale))
          => (last'.offRoad \/ isGameOver)]_vars
  /\ []((mounted /\ ~isGameOver)
          => (car.x >= 0 /\ car.x <= CANVAS_WIDTH * Scale))

\* a thrust tick has left the car beyond an edge of the canvas, and both
\* the off-path test and the horizontal check have raised game over
C36_Witness ==
  /\ last.op = "Tick"
  /\ last.moving
  /\ last.offRoad
  /\ last.offScreen
  /\ (car.x < 0 \/ car.x > CANVAS_WIDTH * Scale)

\* C37: car.y is never above the middle of the canvas (car.y >= 300), and
\* cameraOffsetY is non-negative and, except in a reset, never decreases,
\* also when the car has turned round and drives back down.
C37_CameraOnlyScrollsForward ==
  /\ [](car.y >= (CANVAS_HEIGHT * Scale) \div 2)
  /\ [](cameraOffsetY >= 0)
  /\ [][last'.op # "Reset" => cameraOffsetY' >= cameraOffsetY]_vars

\* a thrust tick has driven the car down, below the middle of the canvas,
\* after the camera had followed it up
C37_Witness ==
  /\ last.op = "Tick"
  /\ last.moving
  /\ ~last.offRoad
  /\ cameraOffsetY > 0
  /\ car.y > (CANVAS_HEIGHT * Scale) \div 2 + MOVE_SPEED * Scale

\* C38: a simulating tick with the thrust key not pressed marks no coin
\* collected and leaves the score as it is, the first tick after mount or
\* reset included.
C38_IdleTickCollectsNothing ==
  [][(last'.op = "Tick" /\ last'.sim /\ " " \notin keysPressed)
       => /\ score' = score
          /\ \A i \in 1 .. Len(coins) : coins'[i].collected = coins[i].collected]_vars

\* C39: whenever GameScreen's actionTriggeredRef is set, the game loop's
\* actionTriggeredRef is set as well, under every interleaving of ticks,
\* the deferred callback and reset.
C39_LatchesConsistent == screenActionTriggeredRef => actionTriggeredRef

\* C40: a tick that raises game over for a loss (off the path or beyond a
\* vertical edge of the canvas) awards nothing: the score and the coins'
\* collected flags are after it what they were before it.
C40_LosingTickAwardsNothing ==
  [][(/\ last'.op = "Tick"
      /\ last'.sim
      /\ ~isGameOver
      /\ (last'.offRoad \/ last'.offScreen))
       => /\ score' = score
          /\ \A i \in 1 .. Len(coins) : coins'[i].collected = coins[i].collected]_vars

====
